---- MODULE Spec2Model ----
(***************************************************************************)
(* Model of azure_sql_server-mini.py: the lifespan that builds the         *)
(* AzureContext from the environment, the six tool handlers, the two       *)
(* resource endpoints and the prompt generator.                            *)
(*                                                                         *)
(* Texts are modelled as sequences of words, so that "begins with" and     *)
(* "contains" are computed.  The strings whose characters matter (the tags *)
(* argument, the prompt's load and size) are sequences of one-character    *)
(* strings.  The Azure SDK is an external collaborator: each call to it    *)
(* either returns a value or raises a fault, chosen nondeterministically.  *)
(* Faults are Python Exceptions (azure.core.exceptions), of which          *)
(* ResourceNotFoundError is the one the code distinguishes.                *)
(***************************************************************************)
EXTENDS Integers, Sequences, FiniteSets, TLC

VARIABLES
    env,        \* the process environment read by os.getenv
    lpc,        \* position of azure_lifespan
    context,    \* the AzureContext object built by azure_lifespan
    ctorLog,    \* SDK constructors called by azure_lifespan, in order
    yielded,    \* the value of the context at the moment it was yielded
    inv,        \* the invocations in flight, one per slot
    last        \* the invocation that completed last

vars == <<env, lpc, context, ctorLog, yielded, inv, last>>

(***************************************************************************)
(* Bounds and input domains                                                *)
(***************************************************************************)
\* Number of invocations the transport may have in flight at once.
NumInv == 2

Slots == 1..NumInv

\* Python's None, for the optional strings and handles.
None == "None"

EnvNames == {"AZURE_SUBSCRIPTION_ID", "AZURE_TENANT_ID",
             "AZURE_CLIENT_ID", "AZURE_CLIENT_SECRET"}

\* os.getenv gives None for an unset variable, "" for one set to nothing.
EnvValues == {None, "", "id"}

\* Python truthiness of an optional string.
Truthy(v) == v # None /\ v # ""

(***************************************************************************)
(* json.loads, on strings given as sequences of characters.  The alphabet  *)
(* covers objects, arrays, strings without escapes, numbers made of the    *)
(* digit 1, the NaN literal that Python's decoder accepts, and blanks.     *)
(***************************************************************************)
JNum(n) == [type |-> "int", val |-> n]
JStr(s) == [type |-> "str", val |-> s]
JList(xs) == [type |-> "list", val |-> xs]
JDict(kvs) == [type |-> "dict", val |-> kvs]
JNaN == [type |-> "float", val |-> "nan"]

\* A decoding step: the value and the index after it, or a JSONDecodeError.
Parsed(v, i) == [ok |-> TRUE, val |-> v, end |-> i]
JSONDecodeError == [ok |-> FALSE, val |-> JNaN, end |-> 0]

\* WHITESPACE.match(s, i).end()
RECURSIVE SkipWs(_, _)
SkipWs(s, i) == IF i <= Len(s) /\ s[i] = " " THEN SkipWs(s, i + 1) ELSE i

CharAt(s, i) == IF i <= Len(s) THEN s[i] ELSE "EOF"

\* NUMBER_RE on the digit 1: the longest run of digits from i.
RECURSIVE ScanNumber(_, _, _)
ScanNumber(s, i, acc) ==
    IF CharAt(s, i) = "1" THEN ScanNumber(s, i + 1, acc * 10 + 1)
    ELSE Parsed(JNum(acc), i)

\* py_scanstring from the character after the opening quote.
RECURSIVE ScanString(_, _, _)
ScanString(s, i, acc) ==
    IF i > Len(s) THEN JSONDecodeError
    ELSE IF s[i] = "\"" THEN Parsed(JStr(acc), i + 1)
    ELSE ScanString(s, i + 1, Append(acc, s[i]))

\* pairs[key] = value of a Python dict: a repeated key keeps its place.
DictPut(kvs, k, v) ==
    IF \E j \in 1..Len(kvs) : kvs[j][1] = k
    THEN [j \in 1..Len(kvs) |-> IF kvs[j][1] = k THEN <<k, v>> ELSE kvs[j]]
    ELSE Append(kvs, <<k, v>>)

RECURSIVE ScanOnce(_, _)
RECURSIVE ScanArray(_, _, _)
RECURSIVE ScanObject(_, _, _)

\* JSONArray after a value has been expected at index i.
ScanArray(s, i, acc) ==
    LET v == ScanOnce(s, i) IN
    IF ~v.ok THEN JSONDecodeError
    ELSE LET j == SkipWs(s, v.end)
             xs == Append(acc, v.val) IN
         IF CharAt(s, j) = "]" THEN Parsed(JList(xs), j + 1)
         ELSE IF CharAt(s, j) = "," THEN ScanArray(s, SkipWs(s, j + 1), xs)
         ELSE JSONDecodeError

\* JSONObject after a property name has been expected at index i.
ScanObject(s, i, acc) ==
    IF CharAt(s, i) # "\"" THEN JSONDecodeError
    ELSE LET k == ScanString(s, i + 1, <<>>) IN
         IF ~k.ok THEN JSONDecodeError
         ELSE LET c == SkipWs(s, k.end) IN
              IF CharAt(s, c) # ":" THEN JSONDecodeError
              ELSE LET v == ScanOnce(s, SkipWs(s, c + 1)) IN
                   IF ~v.ok THEN JSONDecodeError
                   ELSE LET j == SkipWs(s, v.end)
                            kvs == DictPut(acc, k.val.val, v.val) IN
                        IF CharAt(s, j) = "}" THEN Parsed(JDict(kvs), j + 1)
                        ELSE IF CharAt(s, j) = ","
                        THEN ScanObject(s, SkipWs(s, j + 1), kvs)
                        ELSE JSONDecodeError

\* scan_once: one JSON value starting exactly at index i.
ScanOnce(s, i) ==
    LET c == CharAt(s, i) IN
    IF c = "\"" THEN ScanString(s, i + 1, <<>>)
    ELSE IF c = "{"
    THEN LET j == SkipWs(s, i + 1) IN
         IF CharAt(s, j) = "}" THEN Parsed(JDict(<<>>), j + 1)
         ELSE ScanObject(s, j, <<>>)
    ELSE IF c = "["
    THEN LET j == SkipWs(s, i + 1) IN
         IF CharAt(s, j) = "]" THEN Parsed(JList(<<>>), j + 1)
         ELSE ScanArray(s, j, <<>>)
    ELSE IF c = "1" THEN ScanNumber(s, i, 0)
    ELSE IF c = "N" /\ CharAt(s, i + 1) = "a" /\ CharAt(s, i + 2) = "N"
    THEN Parsed(JNaN, i + 3)
    ELSE JSONDecodeError

\* JSONDecoder.decode: blanks, one value, blanks, end of string.
json_loads(s) ==
    LET v == ScanOnce(s, SkipWs(s, 1)) IN
    IF ~v.ok THEN JSONDecodeError
    ELSE IF SkipWs(s, v.end) # Len(s) + 1 THEN JSONDecodeError
    ELSE v

\* The tags argument: Optional[str].
NoTags == [some |-> FALSE, val |-> <<>>]
SomeTags(s) == [some |-> TRUE, val |-> s]

TagInputs ==
    {NoTags} \cup
    { SomeTags(s) : s \in {
        <<>>,
        <<"{", "}">>,
        <<" ", "{", "\"", "a", "\"", ":", "\"", "a", "\"", ",",
          "\"", "a", "\"", ":", "[", "1", "]", "}", " ">>,
        <<"N", "a", "N">>,
        <<"{">>,
        <<"{", "}", "1">> } }

(***************************************************************************)
(* AzureContext and azure_lifespan                                         *)
(***************************************************************************)
AzureContext ==
    [sql_client |-> None, resource_client |-> None,
     subscription_id |-> None, credential |-> None]

\* all([tenant_id, client_id, client_secret])
UseServicePrincipalAny(tenant_id, client_id, client_secret) ==
    Truthy(tenant_id) \/ Truthy(client_id) \/ Truthy(client_secret)

UseServicePrincipal(tenant_id, client_id, client_secret) ==
    Truthy(tenant_id) /\ Truthy(client_id) /\ Truthy(client_secret)

CredentialKind(e) ==
    IF UseServicePrincipal(e["AZURE_TENANT_ID"], e["AZURE_CLIENT_ID"],
                           e["AZURE_CLIENT_SECRET"])
    THEN "ClientSecretCredential"
    ELSE "DefaultAzureCredential"

Idle == [pc |-> "idle"]

NoInvocation == [tool |-> "none"]

\* context = AzureContext(); read the environment; yield at once when the
\* subscription id is missing.
lifespan_start ==
    /\ lpc = "start"
    /\ context' = AzureContext
    /\ lpc' = IF ~Truthy(env["AZURE_SUBSCRIPTION_ID"]) THEN "yield"
              ELSE "credential"
    /\ UNCHANGED <<env, ctorLog, yielded, inv, last>>

\* Lines 47-58: construct the credential; a fault goes to the except clause.
lifespan_credential ==
    /\ lpc = "credential"
    /\ \E ok \in BOOLEAN :
        /\ ctorLog' = Append(ctorLog, [ctor |-> CredentialKind(env), ok |-> ok])
        /\ IF ok
           THEN /\ context' = [context EXCEPT !.credential = CredentialKind(env)]
                /\ lpc' = "sql_client"
           ELSE /\ context' = context
                /\ lpc' = "yield"
    /\ UNCHANGED <<env, yielded, inv, last>>

\* Line 61 moved below the construction of the clients: this step no longer
\* stores the subscription id.
SqlClientStepSubscriptionLater(ctx, subscription_id, ok) ==
    IF ok THEN [ctx EXCEPT !.sql_client = "SqlManagementClient"] ELSE ctx

\* Lines 61-65: store the subscription id, then construct the sql client.
SqlClientStep(ctx, subscription_id, ok) ==
    IF ok
    THEN [ctx EXCEPT !.subscription_id = subscription_id,
                     !.sql_client = "SqlManagementClient"]
    ELSE [ctx EXCEPT !.subscription_id = subscription_id]

lifespan_sql_client ==
    /\ lpc = "sql_client"
    /\ \E ok \in BOOLEAN :
        /\ ctorLog' = Append(ctorLog, [ctor |-> "SqlManagementClient", ok |-> ok])
        /\ context' = SqlClientStep(context, env["AZURE_SUBSCRIPTION_ID"], ok)
        /\ lpc' = IF ok THEN "resource_client" ELSE "yield"
    /\ UNCHANGED <<env, yielded, inv, last>>

\* Lines 66-69: construct the resource client.
lifespan_resource_client ==
    /\ lpc = "resource_client"
    /\ \E ok \in BOOLEAN :
        /\ ctorLog' = Append(ctorLog,
                             [ctor |-> "ResourceManagementClient", ok |-> ok])
        /\ context' = IF ok
                      THEN [context EXCEPT
                               !.resource_client = "ResourceManagementClient"]
                      ELSE context
        /\ lpc' = "yield"
    /\ UNCHANGED <<env, yielded, inv, last>>

\* Lines 42 and 77: the context is handed to the server.
lifespan_yield ==
    /\ lpc = "yield"
    /\ yielded' = context
    /\ lpc' = "serving"
    /\ UNCHANGED <<env, context, ctorLog, inv, last>>

\* Lines 78-80: shutdown, once no invocation is in flight.
lifespan_close ==
    /\ lpc = "serving"
    /\ \A p \in Slots : inv[p].pc = "idle"
    /\ lpc' = "closed"
    /\ UNCHANGED <<env, context, ctorLog, yielded, inv, last>>

Lifespan ==
    \/ lifespan_start
    \/ lifespan_credential
    \/ lifespan_sql_client
    \/ lifespan_resource_client
    \/ lifespan_yield
    \/ lifespan_close

(***************************************************************************)
(* The cloud management API as seen by the handlers                        *)
(***************************************************************************)
\* The faults an SDK call raises; msg stands for str(e).
Faults ==
    {[type |-> "ResourceNotFoundError", msg |-> "no such resource"],
     [type |-> "HttpResponseError", msg |-> "request failed"]}

Returned(v) == [raised |-> FALSE, val |-> v]
Raised(f) == [raised |-> TRUE, fault |-> f]

Locations == {"eastus", "westeurope"}

SampleGroup == [name |-> "rg1", location |-> "eastus", tags |-> None]

SampleServer(loc) ==
    [name |-> "srv1", location |-> loc,
     id |-> <<"", "subscriptions", "id", "resourceGroups", "rg1",
              "providers", "Microsoft.Sql", "servers", "srv1">>,
     state |-> "Ready", version |-> "12.0", administrator_login |-> "admin",
     fully_qualified_domain_name |-> "srv1.database.windows.net"]

SampleDatabase(params) ==
    [name |-> "db1", location |-> params.location, sku |-> params.sku,
     status |-> "Online", creation_date |-> "today"]

\* What a call may return when it does not raise.
ApiValues(call) ==
    CASE call.api = "resource_groups.list" -> {<<>>, <<SampleGroup>>}
      [] call.api = "resource_groups.create_or_update" -> {SampleGroup}
      [] call.api \in {"servers.list", "servers.list_by_resource_group"} ->
            {<<>>, <<SampleServer("eastus")>>}
      [] call.api = "servers.check_name_availability" ->
            {[available |-> TRUE, message |-> None],
             [available |-> FALSE, message |-> "already exists"]}
      [] call.api = "servers.begin_create_or_update" ->
            {SampleServer(call.params.location)}
      [] call.api = "databases.list_by_server" ->
            {<<>>, <<SampleDatabase([location |-> "eastus",
                       sku |-> [name |-> "Basic", tier |-> "Basic"]])>>}
      [] call.api = "servers.get" -> {SampleServer(l) : l \in Locations}
      [] call.api = "databases.begin_create_or_update" ->
            {SampleDatabase(call.params)}

ApiResponses(call) ==
    {Raised(f) : f \in Faults} \cup {Returned(v) : v \in ApiValues(call)}

(***************************************************************************)
(* The handlers.  A handler body is a function of its arguments, the       *)
(* context and the responses its API calls have had so far; it says what   *)
(* the handler does next: return a text, issue a call, or let a fault out. *)
(***************************************************************************)
Ret(text) == [kind |-> "return", result |-> text]
Call(api, params) == [kind |-> "call", call |-> [api |-> api, params |-> params]]
Propagate(e) == [kind |-> "raise", result |-> <<e.type>>]

ResourceTools == {"list_resource_groups", "create_resource_group"}
SqlTools == {"list_sql_servers", "create_sql_server", "list_databases",
             "create_database"}
Tools == ResourceTools \cup SqlTools

\* The client each tool needs and the text it returns without it.
RequiredClient(tool) ==
    IF tool \in ResourceTools THEN "resource_client" ELSE "sql_client"

NotInitializedText(tool) ==
    IF tool \in ResourceTools
    THEN <<"Error:", "Azure", "client", "not", "initialized.",
           "Please", "check", "your", "credentials.">>
    ELSE <<"Error:", "Azure", "SQL", "client", "not", "initialized.",
           "Please", "check", "your", "credentials.">>

\* create_database without its check of the client.
ClientMissingUncheckedCreateDatabase(ctx, tool) ==
    tool # "create_database" /\ ctx[RequiredClient(tool)] = None

\* if not azure_ctx.resource_client / if not azure_ctx.sql_client
ClientMissing(ctx, tool) == ctx[RequiredClient(tool)] = None

FailedTo(tool) ==
    CASE tool = "list_resource_groups" -> <<"Failed", "to", "list", "resource", "groups:">>
      [] tool = "create_resource_group" -> <<"Failed", "to", "create", "resource", "group:">>
      [] tool = "list_sql_servers" -> <<"Failed", "to", "list", "SQL", "servers:">>
      [] tool = "create_sql_server" -> <<"Failed", "to", "create", "SQL", "server:">>
      [] tool = "list_databases" -> <<"Failed", "to", "list", "databases:">>
      [] tool = "create_database" -> <<"Failed", "to", "create", "database:">>

ServerNotFoundText(a) ==
    <<"SQL", "Server", a.server_name, "not", "found", "in", "resource",
      "group", a.resource_group>>

\* list_databases with no except clause.
HandlerExceptMissingListDatabases(tool, a, e) ==
    IF tool = "list_databases" THEN Propagate(e)
    ELSE IF tool = "create_database" /\ e.type = "ResourceNotFoundError"
    THEN Ret(ServerNotFoundText(a))
    ELSE Ret(FailedTo(tool) \o <<e.msg>>)

\* The except clauses of the six handlers.
HandlerExcept(tool, a, e) ==
    IF tool = "create_database" /\ e.type = "ResourceNotFoundError"
    THEN Ret(ServerNotFoundText(a))
    ELSE Ret(FailedTo(tool) \o <<e.msg>>)

list_resource_groups_body(a, ctx, rs) ==
    IF ClientMissing(ctx, "list_resource_groups")
    THEN Ret(NotInitializedText("list_resource_groups"))
    ELSE IF Len(rs) = 0 THEN Call("resource_groups.list", <<>>)
    ELSE IF rs[1].raised THEN HandlerExcept("list_resource_groups", a, rs[1].fault)
    ELSE IF rs[1].val = <<>>
    THEN Ret(<<"No", "resource", "groups", "found", "in", "the", "subscription.">>)
    ELSE LET rg == rs[1].val[1] IN
         Ret(<<"RESOURCE GROUPS", "Name:", rg.name, "Location:", rg.location,
               "Tags:", rg.tags>>)

JsonFormatErrorText == <<"Error:", "Tags", "must", "be", "valid", "JSON", "format">>

create_resource_group_body(a, ctx, rs) ==
    IF ClientMissing(ctx, "create_resource_group")
    THEN Ret(NotInitializedText("create_resource_group"))
    ELSE LET provided == a.tags.some /\ Len(a.tags.val) > 0   \* if tags:
             parsed == json_loads(a.tags.val) IN
         IF provided /\ ~parsed.ok THEN Ret(JsonFormatErrorText)
         ELSE IF Len(rs) = 0
         THEN Call("resource_groups.create_or_update",
                   [resource_group_name |-> a.name,
                    parameters |-> [location |-> a.location,
                                    tags |-> IF provided THEN parsed.val
                                             ELSE JDict(<<>>)]])
         ELSE IF rs[1].raised
         THEN HandlerExcept("create_resource_group", a, rs[1].fault)
         ELSE Ret(<<"Resource", "group", a.name, "created", "successfully",
                    "in", a.location>>)

list_sql_servers_body(a, ctx, rs) ==
    IF ClientMissing(ctx, "list_sql_servers")
    THEN Ret(NotInitializedText("list_sql_servers"))
    ELSE IF Len(rs) = 0
    THEN IF Truthy(a.resource_group)
         THEN Call("servers.list_by_resource_group", <<a.resource_group>>)
         ELSE Call("servers.list", <<>>)
    ELSE IF rs[1].raised THEN HandlerExcept("list_sql_servers", a, rs[1].fault)
    ELSE IF rs[1].val = <<>>
    THEN IF Truthy(a.resource_group)
         THEN Ret(<<"No", "SQL", "servers", "found", "in", "resource",
                    "group", a.resource_group>>)
         ELSE Ret(<<"No", "SQL", "servers", "found.">>)
    ELSE LET server == rs[1].val[1] IN
         Ret(<<"SQL SERVERS", "Name:", server.name,
               "Location:", server.location,
               "Resource Group:", server.id[5],     \* id.split('/')[4]
               "State:", server.state, "Version:", server.version,
               "Admin Login:", server.administrator_login,
               "Fully Qualified Domain Name:",
               server.fully_qualified_domain_name>>)

\* create_sql_server going on to create whatever the check said.
create_sql_server_checkedIgnored(a, availability) ==
    Call("servers.begin_create_or_update",
         [resource_group_name |-> a.resource_group,
          server_name |-> a.server_name, location |-> a.location,
          version |-> a.version, administrator_login |-> a.admin_login])

\* Lines 241-259: what follows the availability check.
create_sql_server_checked(a, availability) ==
    IF ~availability.available
    THEN Ret(<<"Server", "name", a.server_name, "is", "not", "available:",
               availability.message>>)
    ELSE Call("servers.begin_create_or_update",
              [resource_group_name |-> a.resource_group,
               server_name |-> a.server_name, location |-> a.location,
               version |-> a.version, administrator_login |-> a.admin_login])

create_sql_server_body(a, ctx, rs) ==
    IF ClientMissing(ctx, "create_sql_server")
    THEN Ret(NotInitializedText("create_sql_server"))
    ELSE IF Len(rs) = 0
    THEN Call("servers.check_name_availability",
              [name |-> a.server_name, type |-> "Microsoft.Sql/servers"])
    ELSE IF rs[1].raised THEN HandlerExcept("create_sql_server", a, rs[1].fault)
    ELSE LET next == create_sql_server_checked(a, rs[1].val) IN
         IF next.kind # "call" \/ Len(rs) = 1 THEN next
         ELSE IF rs[2].raised
         THEN HandlerExcept("create_sql_server", a, rs[2].fault)
         ELSE LET server == rs[2].val IN
              Ret(<<"SQL", "Server", "created", "successfully!",
                    "Name:", server.name, "Location:", server.location,
                    "State:", server.state,
                    "FQDN:", server.fully_qualified_domain_name,
                    "Admin Login:", server.administrator_login>>)

list_databases_body(a, ctx, rs) ==
    IF ClientMissing(ctx, "list_databases")
    THEN Ret(NotInitializedText("list_databases"))
    ELSE IF Len(rs) = 0
    THEN Call("databases.list_by_server",
              [resource_group_name |-> a.resource_group,
               server_name |-> a.server_name])
    ELSE IF rs[1].raised THEN HandlerExcept("list_databases", a, rs[1].fault)
    ELSE IF rs[1].val = <<>>
    THEN Ret(<<"No", "databases", "found", "on", "server", a.server_name>>)
    ELSE LET db == rs[1].val[1] IN
         Ret(<<"DATABASES ON", a.server_name, "Name:", db.name,
               "Status:", db.status, "Edition:", db.sku.tier,
               "Service Objective:", db.sku.name>>)

\* create_database creating in a fixed region instead of the server's.
create_database_paramsFixedLocation(a, server_details) ==
    [location |-> "eastus",
     sku |-> [name |-> a.service_objective, tier |-> a.edition]]

\* Lines 349-358: db_params, from the server that the lookup returned.
create_database_params(a, server_details) ==
    [location |-> server_details.location,
     sku |-> [name |-> a.service_objective, tier |-> a.edition]]

create_database_body(a, ctx, rs) ==
    IF ClientMissing(ctx, "create_database")
    THEN Ret(NotInitializedText("create_database"))
    ELSE IF Len(rs) = 0
    THEN Call("servers.get", [resource_group_name |-> a.resource_group,
                              server_name |-> a.server_name])
    ELSE IF rs[1].raised THEN HandlerExcept("create_database", a, rs[1].fault)
    ELSE IF Len(rs) = 1
    THEN Call("databases.begin_create_or_update",
              create_database_params(a, rs[1].val))
    ELSE IF rs[2].raised THEN HandlerExcept("create_database", a, rs[2].fault)
    ELSE LET database == rs[2].val IN
         Ret(<<"Database", "created", "successfully!",
               "Name:", database.name, "Location:", database.location,
               "Edition:", database.sku.tier,
               "Service Objective:", database.sku.name,
               "Status:", database.status,
               "Creation Date:", database.creation_date>>)

get_subscription_info_body(a, ctx, rs) ==
    IF ~Truthy(ctx.subscription_id)
    THEN Ret(<<"No", "Azure", "subscription", "configured">>)
    ELSE Ret(<<"Azure", "Subscription", "ID:", ctx.subscription_id>>)

\* get_all_servers: list_sql_servers()
get_all_servers_body(a, ctx, rs) ==
    list_sql_servers_body([resource_group |-> None], ctx, rs)

Body(tool, a, ctx, rs) ==
    CASE tool = "list_resource_groups" -> list_resource_groups_body(a, ctx, rs)
      [] tool = "create_resource_group" -> create_resource_group_body(a, ctx, rs)
      [] tool = "list_sql_servers" -> list_sql_servers_body(a, ctx, rs)
      [] tool = "create_sql_server" -> create_sql_server_body(a, ctx, rs)
      [] tool = "list_databases" -> list_databases_body(a, ctx, rs)
      [] tool = "create_database" -> create_database_body(a, ctx, rs)
      [] tool = "get_subscription_info" -> get_subscription_info_body(a, ctx, rs)
      [] tool = "get_all_servers" -> get_all_servers_body(a, ctx, rs)

(***************************************************************************)
(* Invocations.  An invocation occupies a slot from its first API call to  *)
(* its return; other invocations may run while it waits for the API.       *)
(***************************************************************************)
NoArgs == <<>>

Completed(tool, a, seen, calls, rs, step) ==
    [tool |-> tool, args |-> a, azure_ctx |-> seen, calls |-> calls, rs |-> rs,
     outcome |-> IF step.kind = "return" THEN "returned" ELSE "raised",
     result |-> step.result]

\* Run the handler from the responses rs up to its next API call or its end.
Run(p, tool, a, seen, calls, rs) ==
    LET step == Body(tool, a, context, rs) IN
    IF step.kind = "call"
    THEN /\ inv' = [inv EXCEPT ![p] =
                       [pc |-> "await", tool |-> tool, args |-> a,
                        azure_ctx |-> seen,
                        calls |-> Append(calls, step.call), rs |-> rs]]
         /\ last' = last
    ELSE /\ inv' = [inv EXCEPT ![p] = Idle]
         /\ last' = Completed(tool, a, seen, calls, rs, step)

\* ctx = mcp.get_context(); azure_ctx = ctx.request_context.lifespan_context
Start(p, tool, a) ==
    /\ lpc = "serving"
    /\ inv[p].pc = "idle"
    /\ Run(p, tool, a, context, <<>>, <<>>)

list_resource_groups(p) ==
    /\ Start(p, "list_resource_groups", NoArgs)
    /\ UNCHANGED <<env, lpc, context, ctorLog, yielded>>

create_resource_group(p) ==
    /\ \E tags \in TagInputs :
          Start(p, "create_resource_group",
                [name |-> "rg1", location |-> "East US", tags |-> tags])
    /\ UNCHANGED <<env, lpc, context, ctorLog, yielded>>

list_sql_servers(p) ==
    /\ \E rg \in {None, "rg1"} :
          Start(p, "list_sql_servers", [resource_group |-> rg])
    /\ UNCHANGED <<env, lpc, context, ctorLog, yielded>>

create_sql_server(p) ==
    /\ Start(p, "create_sql_server",
                [resource_group |-> "rg1", server_name |-> "srv1",
                 location |-> "westeurope", admin_login |-> "admin",
                 admin_password |-> "secret", version |-> "12.0"])
    /\ UNCHANGED <<env, lpc, context, ctorLog, yielded>>

list_databases(p) ==
    /\ Start(p, "list_databases",
             [resource_group |-> "rg1", server_name |-> "srv1"])
    /\ UNCHANGED <<env, lpc, context, ctorLog, yielded>>

create_database(p) ==
    /\ Start(p, "create_database",
             [resource_group |-> "rg1", server_name |-> "srv1",
              database_name |-> "db1", edition |-> "Basic",
              service_objective |-> "Basic"])
    /\ UNCHANGED <<env, lpc, context, ctorLog, yielded>>

\* The resource handler remembering an answer in the shared context.
get_subscription_infoCaching(p) ==
    /\ Start(p, "get_subscription_info", NoArgs)
    /\ context' = [context EXCEPT !.subscription_id = "cached"]
    /\ UNCHANGED <<env, lpc, ctorLog, yielded>>

get_subscription_info(p) ==
    /\ Start(p, "get_subscription_info", NoArgs)
    /\ UNCHANGED <<env, lpc, context, ctorLog, yielded>>

get_all_servers(p) ==
    /\ Start(p, "get_all_servers", NoArgs)
    /\ UNCHANGED <<env, lpc, context, ctorLog, yielded>>

\* The API call a handler waits for returns or raises.
api_response(p) ==
    /\ inv[p].pc = "await"
    /\ \E r \in ApiResponses(inv[p].calls[Len(inv[p].calls)]) :
          Run(p, inv[p].tool, inv[p].args, inv[p].azure_ctx, inv[p].calls,
              Append(inv[p].rs, r))
    /\ UNCHANGED <<env, lpc, context, ctorLog, yielded>>

Invocation ==
    \E p \in Slots :
        \/ list_resource_groups(p)
        \/ create_resource_group(p)
        \/ list_sql_servers(p)
        \/ create_sql_server(p)
        \/ list_databases(p)
        \/ create_database(p)
        \/ get_subscription_info(p)
        \/ get_all_servers(p)
        \/ api_response(p)

(***************************************************************************)
(* database_creation_prompt.  Its load and size are strings of letters.    *)
(***************************************************************************)
\* The letters of the table's words, upper case then lower case.
CasePairs ==
    {<<"L", "l">>, <<"O", "o">>, <<"W", "w">>, <<"M", "m">>, <<"E", "e">>,
     <<"D", "d">>, <<"I", "i">>, <<"U", "u">>, <<"H", "h">>, <<"G", "g">>,
     <<"S", "s">>, <<"A", "a">>, <<"R", "r">>}

\* str.lower()
LowerChar(c) ==
    IF \E cp \in CasePairs : cp[1] = c
    THEN (CHOOSE cp \in CasePairs : cp[1] = c)[2]
    ELSE c

lower(str) == [i \in 1..Len(str) |-> LowerChar(str[i])]

low == <<"l", "o", "w">>
medium == <<"m", "e", "d", "i", "u", "m">>
high == <<"h", "i", "g", "h">>
small == <<"s", "m", "a", "l", "l">>
large == <<"l", "a", "r", "g", "e">>

suggestions ==
    {<<<<low, small>>, <<"Basic", "Basic">>>>,
     <<<<low, medium>>, <<"Standard", "S1">>>>,
     <<<<medium, medium>>, <<"Standard", "S2">>>>,
     <<<<high, large>>, <<"Premium", "P1">>>>}

\* suggestions.get(key, default)
DictGet(dict, key, default) ==
    IF \E kv \in dict : kv[1] = key
    THEN (CHOOSE kv \in dict : kv[1] = key)[2]
    ELSE default

\* The key with the size left in the case the caller gave it.
PromptKeySizeAsGiven(expected_load, data_size) ==
    <<lower(expected_load), data_size>>

\* key = (expected_load.lower(), data_size.lower())
PromptKey(expected_load, data_size) ==
    <<lower(expected_load), lower(data_size)>>

database_creation_prompt_body(a) ==
    LET choice == DictGet(suggestions,
                          PromptKey(a.expected_load, a.data_size),
                          <<"Standard", "S1">>) IN
    <<"I need to create an Azure SQL database for:", a.purpose,
      "Expected load:", a.expected_load, "Data size:", a.data_size,
      "Edition:", choice[1], "Service Objective:", choice[2]>>

\* w in lower case, in upper case, capitalised, and with its inner letters
\* in upper case.
CaseVariants(w) ==
    { [i \in 1..Len(w) |->
          IF i \in U THEN (CHOOSE cp \in CasePairs : cp[2] = w[i])[1] ELSE w[i]]
      : U \in {{}, 1..Len(w), {1}, 2..(Len(w) - 1)} }

OtherWords == {<<>>, <<"l", "o">>, <<"l", "o", "w", "s">>, <<"h", "u", "g", "e">>}

LoadInputs ==
    CaseVariants(low) \cup CaseVariants(medium) \cup CaseVariants(high)
        \cup OtherWords
SizeInputs ==
    CaseVariants(small) \cup CaseVariants(medium) \cup CaseVariants(large)
        \cup OtherWords

database_creation_prompt(p) ==
    /\ lpc = "serving"
    /\ inv[p].pc = "idle"
    /\ \E load \in LoadInputs, size \in SizeInputs :
          LET a == [purpose |-> "testing", expected_load |-> load,
                    data_size |-> size] IN
          last' = [tool |-> "database_creation_prompt", args |-> a,
                   calls |-> <<>>, rs |-> <<>>, outcome |-> "returned",
                   result |-> database_creation_prompt_body(a)]
    /\ UNCHANGED <<env, lpc, context, ctorLog, yielded, inv>>

InitState(e) ==
    /\ env = e
    /\ lpc = "start"
    /\ context = AzureContext
    /\ ctorLog = <<>>
    /\ yielded = AzureContext
    /\ inv = [p \in Slots |-> Idle]
    /\ last = NoInvocation

\* Startup alone, under every environment.
InitStartup == \E e \in [EnvNames -> EnvValues] : InitState(e)

NextStartup == Lifespan

SpecStartup == InitStartup /\ [][NextStartup]_vars

\* The server: startup, then invocations, under the environments that set
\* the three service-principal variables.
EnvSamples ==
    {e \in [EnvNames -> EnvValues] :
        /\ e["AZURE_TENANT_ID"] = "id"
        /\ e["AZURE_CLIENT_ID"] = "id"
        /\ e["AZURE_CLIENT_SECRET"] = "id"}

Init == \E e \in EnvSamples : InitState(e)

Next == Lifespan \/ Invocation

Spec == Init /\ [][Next]_vars

\* The prompt generator, in a server started with a full environment.
InitPrompt == InitState([n \in EnvNames |-> "id"])

NextPrompt == Lifespan \/ \E p \in Slots : database_creation_prompt(p)

SpecPrompt == InitPrompt /\ [][NextPrompt]_vars

(***************************************************************************)
(* Properties                                                              *)
(***************************************************************************)
\* The invocations of a tool that the state holds: those in flight and the
\* one that completed last.
InFlight(tool) ==
    {inv[p] : p \in {q \in Slots : inv[q].pc = "await" /\ inv[q].tool = tool}}

Records(tool) ==
    InFlight(tool) \cup (IF last.tool = tool THEN {last} ELSE {})

FaultsRaised(r) == {r.rs[i].fault : i \in {j \in 1..Len(r.rs) : r.rs[j].raised}}

BeginsWithFailedTo(text) ==
    Len(text) >= 2 /\ text[1] = "Failed" /\ text[2] = "to"

SaysNotInitialized(text) ==
    /\ Len(text) >= 1 /\ text[1] = "Error:"
    /\ \E i \in 1..(Len(text) - 1) : text[i] = "not" /\ text[i + 1] = "initialized."

SubscriptionAbsent == env["AZURE_SUBSCRIPTION_ID"] \in {None, ""}

\* C1: when the subscription id is absent at startup, no invocation of any of
\* the six tools ever issues an API call, and each returns the "not
\* initialized" error text.
C1_AbsentSubscriptionNotInitialized ==
    SubscriptionAbsent =>
        /\ \A p \in Slots : inv[p].pc = "idle"
        /\ last.tool \in Tools =>
              /\ last.outcome = "returned"
              /\ SaysNotInitialized(last.result)
              /\ last.calls = <<>>

C1_Witness ==
    /\ env["AZURE_SUBSCRIPTION_ID"] = ""
    /\ last.tool = "create_database"
    /\ last.outcome = "returned"

\* C2 as stated: whenever an API call raised a fault inside one of the six
\* handlers, the handler returned a text beginning with "Failed to ".
C2_EveryFaultFailedTo ==
    (last.tool \in Tools /\ FaultsRaised(last) # {}) =>
        /\ last.outcome = "returned"
        /\ BeginsWithFailedTo(last.result)

\* C2 as amended: whenever an API call raised a fault inside one of the six
\* handlers, the handler returned a text, and the text begins with
\* "Failed to " unless the handler is create_database and the fault a
\* ResourceNotFoundError, for which it is the "SQL Server ... not found in
\* resource group ..." text.
C2_FaultBecomesText ==
    (last.tool \in Tools /\ FaultsRaised(last) # {}) =>
        /\ last.outcome = "returned"
        /\ \A f \in FaultsRaised(last) :
              IF last.tool = "create_database" /\ f.type = "ResourceNotFoundError"
              THEN last.result = <<"SQL", "Server", "srv1", "not", "found", "in",
                                   "resource", "group", "rg1">>
              ELSE BeginsWithFailedTo(last.result)

C2_Witness ==
    /\ last.tool = "list_databases"
    /\ FaultsRaised(last) # {}
    /\ BeginsWithFailedTo(last.result)

ClientConstructors == {"SqlManagementClient", "ResourceManagementClient"}

\* C3: when the construction of a client handle raised a fault, the context
\* handed to the server has the subscription id set and both client handles
\* absent.
C3_ClientFaultBothAbsent ==
    (/\ lpc \in {"serving", "closed"}
     /\ \E i \in 1..Len(ctorLog) :
           ctorLog[i].ctor \in ClientConstructors /\ ~ctorLog[i].ok) =>
        /\ context.subscription_id = env["AZURE_SUBSCRIPTION_ID"]
        /\ context.sql_client = None
        /\ context.resource_client = None

\* C4: in every state, if the context's subscription id is absent then both
\* client handles are absent.
C4_NoSubscriptionNoClients ==
    context.subscription_id = None =>
        context.sql_client = None /\ context.resource_client = None

C4_Witness ==
    /\ lpc = "serving"
    /\ env["AZURE_SUBSCRIPTION_ID"] = "id"
    /\ Len(ctorLog) = 1 /\ ~ctorLog[1].ok
    /\ context.subscription_id = None

\* C5: in every create_sql_server invocation the first API call is the
\* name-availability check, a create call is issued only second and only
\* after the check reported the name available; when the check reports it
\* unavailable the handler returns the availability message having issued
\* no create call.
C5_CheckBeforeCreate ==
    /\ \A r \in Records("create_sql_server") :
          /\ Len(r.calls) >= 1 =>
                r.calls[1].api = "servers.check_name_availability"
          /\ \A i \in 1..Len(r.calls) :
                r.calls[i].api = "servers.begin_create_or_update" =>
                    /\ i = 2
                    /\ ~r.rs[1].raised
                    /\ r.rs[1].val.available
    /\ (/\ last.tool = "create_sql_server"
        /\ Len(last.rs) >= 1
        /\ ~last.rs[1].raised
        /\ ~last.rs[1].val.available) =>
          /\ last.result = <<"Server", "name", "srv1", "is", "not",
                             "available:", last.rs[1].val.message>>
          /\ \A i \in 1..Len(last.calls) :
                last.calls[i].api # "servers.begin_create_or_update"

C5_Witness ==
    /\ last.tool = "create_sql_server"
    /\ Len(last.rs) = 1
    /\ ~last.rs[1].raised
    /\ ~last.rs[1].val.available

\* C6: with a resource client, every create_resource_group invocation whose
\* tags argument is a string that is not valid JSON issues no API call and
\* returns the JSON-format error text.
C6_InvalidTagsRejected ==
    \A r \in Records("create_resource_group") :
        (/\ r.azure_ctx.resource_client # None
         /\ r.args.tags.some
         /\ ~json_loads(r.args.tags.val).ok) =>
            /\ r.calls = <<>>
            /\ r.result = <<"Error:", "Tags", "must", "be", "valid", "JSON",
                            "format">>

\* C7: while the server is serving, the context is the one that was yielded,
\* and every invocation, in flight or completed, observed that same context.
C7_ContextNeverMutated ==
    lpc = "serving" =>
        /\ context = yielded
        /\ \A p \in Slots : inv[p].pc = "await" => inv[p].azure_ctx = yielded
        /\ last.tool \in Tools \cup {"get_subscription_info", "get_all_servers"}
              => last.azure_ctx = yielded

C7_Witness ==
    /\ lpc = "serving"
    /\ inv[1].pc = "await" /\ inv[1].tool = "create_database"
    /\ inv[2].pc = "await" /\ inv[2].tool = "create_resource_group"
    /\ last.tool = "get_subscription_info"

Present(v) == v \notin {None, ""}

\* C8: with the subscription id present, the credential the lifespan
\* constructs is a service-principal credential exactly when tenant id,
\* client id and client secret are all present, and the default credential
\* otherwise.
C8_CredentialStrategy ==
    (Present(env["AZURE_SUBSCRIPTION_ID"]) /\ Len(ctorLog) >= 1) =>
        LET all3 == /\ Present(env["AZURE_TENANT_ID"])
                    /\ Present(env["AZURE_CLIENT_ID"])
                    /\ Present(env["AZURE_CLIENT_SECRET"])
            kind == IF all3 THEN "ClientSecretCredential"
                    ELSE "DefaultAzureCredential" IN
        /\ ctorLog[1].ctor = kind
        /\ ctorLog[1].ok => context.credential = kind

C8_Witness ==
    /\ env["AZURE_SUBSCRIPTION_ID"] = "id"
    /\ env["AZURE_TENANT_ID"] = "id"
    /\ env["AZURE_CLIENT_ID"] = "id"
    /\ env["AZURE_CLIENT_SECRET"] = None
    /\ context.credential = "DefaultAzureCredential"

\* Equality of a string and a lower-case word, ignoring case.
SameIgnoringCase(str, word) ==
    /\ Len(str) = Len(word)
    /\ \A i \in 1..Len(str) :
          str[i] = word[i] \/ <<str[i], word[i]>> \in CasePairs

\* C9: the prompt recommends (Basic, Basic) for (low, small), (Standard, S1)
\* for (low, medium), (Standard, S2) for (medium, medium), (Premium, P1) for
\* (high, large) and (Standard, S1) for every other pair, the pair being
\* compared without regard to case.
C9_PromptRecommendation ==
    last.tool = "database_creation_prompt" =>
        LET load == last.args.expected_load
            size == last.args.data_size
            is(w1, w2) == SameIgnoringCase(load, w1) /\ SameIgnoringCase(size, w2)
            expected == IF is(low, small) THEN <<"Basic", "Basic">>
                        ELSE IF is(low, medium) THEN <<"Standard", "S1">>
                        ELSE IF is(medium, medium) THEN <<"Standard", "S2">>
                        ELSE IF is(high, large) THEN <<"Premium", "P1">>
                        ELSE <<"Standard", "S1">> IN
        /\ last.result[7] = "Edition:"
        /\ last.result[9] = "Service Objective:"
        /\ <<last.result[8], last.result[10]>> = expected

C9_Witness ==
    /\ last.tool = "database_creation_prompt"
    /\ last.args.expected_load = <<"H", "I", "G", "H">>
    /\ last.args.data_size = <<"L", "a", "r", "g", "e">>
    /\ last.result[8] = "Premium"

====
